---- MODULE Spec2Model ----
(***************************************************************************)
(* Client-side state of the Suraksh dashboard:                             *)
(*   - the auth store (zustand + persist, key "auth-storage"),             *)
(*   - the legacy token mirror (key "auth_token"),                         *)
(*   - ApiClient (request interceptor, 401 response interceptor,           *)
(*     getToken / clearToken / setToken),                                  *)
(*   - authApi.login / authApi.logout, LoginPage, DashboardLayout,         *)
(*     Sidebar and SettingsPage logout handlers,                           *)
(*   - the notification utilities (key "notifications"),                   *)
(*   - the 'graph-data-updated' window event: VaultPage's ingest handler   *)
(*     dispatches it, GraphPage listens for it and reloads the graph,      *)
(*   - RequestsPage's notifications panel and its polling interval.        *)
(*                                                                         *)
(* The specifications share the variables:                                 *)
(*   Spec         the session layer, started in a fresh browser;           *)
(*   SpecStore    the auth store's own operations, called in any order;    *)
(*   SpecGetToken ApiClient.getToken applied to any content of the two     *)
(*                persisted session keys;                                  *)
(*   SpecKeys     getToken, the request interceptor and the 401 handler    *)
(*                applied to any content of the two session keys;          *)
(*   SpecNotif    the notification utilities, called in any order;         *)
(*   SpecBus      the dashboard pages, the ingest handler and the graph    *)
(*                viewer's listener;                                       *)
(*   SpecGraph    the graph viewer's reloads and their answers;            *)
(*   SpecPanel    the notifications panel with ingestions finishing while  *)
(*                it is shown.                                             *)
(***************************************************************************)
EXTENDS Integers, Sequences, FiniteSets, TLC

VARIABLES
    memToken,     \* useAuthStore state.token        (None = null)
    memUser,      \* useAuthStore state.user         (None = null)
    memAuth,      \* useAuthStore state.isAuthenticated
    lsRecord,     \* localStorage["auth-storage"]
    lsMirror,     \* localStorage["auth_token"]      (None = key absent)
    accGet,       \* what the registered getAuthToken closure returns
    accClear,     \* which clearAuthToken closure is registered
    location,     \* window.location.pathname, by route group
    pendingNav,   \* target of an assigned window.location.href, not yet loaded
    inflight,     \* requests sent through apiClient and not yet answered
    sent,         \* requests sent by the current document
    loginPc,      \* position of LoginPage.handleSubmit
    loginTok,     \* access_token of the POST /auth/login response
    loginTimer,   \* LoginPage's setTimeout(checkAuth, 100) is pending
    guardClient,  \* DashboardLayout isClient
    guardTimer,   \* DashboardLayout's setTimeout(checkAuth, 0) is pending
    guardChecked, \* DashboardLayout hasCheckedAuth
    guardPushes,  \* router.push("/auth/login") calls of DashboardLayout's
                  \* checkAuth so far, modulo 2
    redirects,    \* 401-handler assignments of location.href by this document
    tornDown,     \* a 401 teardown ran and no login response came since
    calls,        \* operations applied so far (the specifications of calls)
    rets,         \* log of the calls so far (the specifications of calls)
    lsNotifs,     \* localStorage["notifications"]
    now,          \* Date.now()
    view,         \* the dashboard page that is mounted
    mounts,       \* page instances mounted so far
    listeners,    \* 'graph-data-updated' listeners registered on window
    busLog,       \* log of listener registrations, dispatches and graph loads
    ingests,      \* ingest click handlers awaiting a response
    clicks,       \* ingest clicks handled so far
    published,    \* 'graph-data-updated' events dispatched so far
    loads,        \* GET /search/graph/all requests awaiting their response,
                  \* each named by the position of its load entry in busLog
    graph,        \* state of the mounted GraphPage: graphNodes / graphEdges,
                  \* isLoading, error
    panel         \* RequestsPage: its `notifications` state and whether its
                  \* setInterval timer is registered

\* the auth store, the two session keys, ApiClient's accessors and the pages
\* of the session layer
sessionVars == <<memToken, memUser, memAuth, lsRecord, lsMirror, accGet, accClear,
                 location, pendingNav, inflight, sent, loginPc, loginTok, loginTimer,
                 guardClient, guardTimer, guardChecked, guardPushes, redirects,
                 tornDown>>

\* localStorage["notifications"] and the clock its entries are stamped with
notifVars == <<lsNotifs, now>>

\* the dashboard pages, the window event target, the ingest handlers, the
\* graph requests and the notifications panel
busVars == <<view, mounts, listeners, busLog, ingests, clicks, published, loads,
             graph, panel>>

vars == <<memToken, memUser, memAuth, lsRecord, lsMirror, accGet, accClear,
          location, pendingNav, inflight, sent, loginPc, loginTok, loginTimer,
          guardClient, guardTimer, guardChecked, guardPushes, redirects, tornDown,
          calls, rets, notifVars, busVars>>

(***************************************************************************)
(* Bounds                                                                  *)
(***************************************************************************)
MaxInflight == 2
MaxSent == 3
MaxCalls == 4
MaxKeyCalls == 2
MaxTime == 2
MaxNotifCalls == 2
MaxMounts == 3
MaxClicks == 2
MaxIngests == 2
MaxReloads == 1
MaxLog == 7
MaxBusLog == 10

(***************************************************************************)
(* Values                                                                  *)
(***************************************************************************)
None == <<>>
Some(x) == <<x>>

Tokens == {"abc", "xyz"}
TokenValues == {None, Some("")} \cup {Some(t) : t \in Tokens}
Users == {"alice", "bob"}
UserValues == {None} \cup {Some(u) : u \in Users}

\* JavaScript truthiness of a string | null
Truthy(t) == t # None /\ t # Some("")

CurrentVersion == 0
Versions == {CurrentVersion, CurrentVersion + 1}

\* Content of localStorage["auth-storage"]:
\*   absent   the key is not set (or holds the empty string)
\*   corrupt  JSON.parse throws, or the value has no properties (JSON null)
\*   nostate  an object without a `state` member
\*   ok       { state: { token, user }, version }
AbsentRec == [kind |-> "absent", token |-> None, user |-> None, version |-> CurrentVersion]
CorruptRec == [kind |-> "corrupt", token |-> None, user |-> None, version |-> CurrentVersion]
NoStateRec(v) == [kind |-> "nostate", token |-> None, user |-> None, version |-> v]
OkRec(t, u, v) == [kind |-> "ok", token |-> t, user |-> u, version |-> v]

RecordValues ==
    {AbsentRec, CorruptRec}
      \cup {NoStateRec(v) : v \in Versions}
      \cup {OkRec(t, u, v) : t \in TokenValues, u \in UserValues, v \in Versions}

\* The part of the program state the store and ApiClient functions work on.
World == [tok |-> memToken, usr |-> memUser, auth |-> memAuth,
          rec |-> lsRecord, mir |-> lsMirror]

SetWorld(w) ==
    /\ memToken' = w.tok
    /\ memUser' = w.usr
    /\ memAuth' = w.auth
    /\ lsRecord' = w.rec
    /\ lsMirror' = w.mir

(***************************************************************************)
(* The auth store (zustand create + persist)                               *)
(***************************************************************************)

\* persist's setItem after every set(): the record is rewritten from the
\* in-memory state through partialize ({ token, user }), version 0.
Persist(w) == [w EXCEPT !.rec = OkRec(w.tok, w.usr, CurrentVersion)]

\* The mirror write of setToken: `if (token) setItem else removeItem`.
MirrorOf(t) == IF Truthy(t) THEN t ELSE None

\* useAuthStore.setToken(token)
StoreSetToken(w, t) ==
    [Persist([w EXCEPT !.tok = t]) EXCEPT !.mir = MirrorOf(t)]

\* setUser that drops the token together with the user.
StoreSetUser_DropsToken(w, u) ==
    Persist([w EXCEPT !.usr = u, !.auth = (u # None),
                      !.tok = IF u = None THEN None ELSE w.tok])

\* useAuthStore.setUser(user):  set({ user, isAuthenticated: !!user })
StoreSetUser(w, u) ==
    Persist([w EXCEPT !.usr = u, !.auth = (u # None)])

\* logout that persists the record before it resets the state.
StoreLogout_PersistFirst(w) ==
    [Persist(w) EXCEPT !.usr = None, !.tok = None, !.auth = FALSE, !.mir = None]

\* useAuthStore.logout()
StoreLogout(w) ==
    [Persist([w EXCEPT !.usr = None, !.tok = None, !.auth = FALSE])
        EXCEPT !.mir = None]

\* The clear accessor registered in onRehydrateStorage:
\*   state.setToken(null); state.setUser(null)
RehydrateClear(w) == StoreSetUser(StoreSetToken(w, None), None)

\* The clear accessor registered at module initialisation: store.logout()
InitClear(w) == StoreLogout(w)

\* persist's hydration of the in-memory state from the stored record: the
\* stored { token, user } is merged over the initial state when the record
\* parses, has a state and carries the store's version; isAuthenticated is
\* not part of the record and keeps its initial value.
Hydrate(w) ==
    IF w.rec.kind = "ok" /\ w.rec.version = CurrentVersion
    THEN [w EXCEPT !.tok = w.rec.token, !.usr = w.rec.user, !.auth = FALSE]
    ELSE [w EXCEPT !.tok = None, !.usr = None, !.auth = FALSE]

\* Both registration sites end with `if (token) setItem("auth_token", token)`.
SyncMirrorOnLoad(w) ==
    IF Truthy(w.tok) THEN [w EXCEPT !.mir = w.tok] ELSE w

\* Module evaluation of the store on a page load.  persistAfter: whether this
\* build of persist writes the record back when hydration ends (it never
\* does when reading the record threw).
LoadStore(w, persistAfter) ==
    LET h == Hydrate(w)
        p == IF persistAfter /\ w.rec.kind # "corrupt" THEN Persist(h) ELSE h
    IN  SyncMirrorOnLoad(p)

(***************************************************************************)
(* ApiClient                                                               *)
(***************************************************************************)

\* `parsed.state?.token` of the stored record, inside try/catch: null when
\* the key is absent, parsing throws, or there is no state.
RecordToken(rec) == IF rec.kind = "ok" THEN rec.token ELSE None

\* MigrateLegacy without the `else` branch that creates a missing record.
MigrateLegacy_NoCreate(rec, legacy) ==
    CASE rec.kind = "absent"  -> rec
      [] rec.kind = "corrupt" -> rec
      [] rec.kind = "nostate" -> OkRec(legacy, None, rec.version)
      [] OTHER -> IF ~Truthy(rec.token) THEN [rec EXCEPT !.token = legacy] ELSE rec

\* Migration of a legacy token into the record (getToken, legacy fallback).
MigrateLegacy(rec, legacy) ==
    CASE rec.kind = "absent"  -> OkRec(legacy, None, CurrentVersion)
      [] rec.kind = "corrupt" -> rec
      [] rec.kind = "nostate" -> OkRec(legacy, None, rec.version)
      [] OTHER -> IF ~Truthy(rec.token) THEN [rec EXCEPT !.token = legacy] ELSE rec

\* getToken with the legacy mirror consulted before the structured record.
ApiGetToken_LegacyFirst(w, acc) ==
    LET rt == RecordToken(w.rec) IN
    IF Truthy(w.mir)
    THEN [w |-> [w EXCEPT !.rec = MigrateLegacy(w.rec, w.mir)],
          ret |-> w.mir, src |-> "legacy"]
    ELSE IF Truthy(rt)
    THEN [w |-> [w EXCEPT !.mir = rt], ret |-> rt, src |-> "record"]
    ELSE IF Truthy(acc)
    THEN [w |-> [w EXCEPT !.mir = acc], ret |-> acc, src |-> "accessor"]
    ELSE [w |-> w, ret |-> None, src |-> "none"]

\* ApiClient.getToken(): the new world and the value returned.
\* acc is what the registered getAuthToken returns (None when none is
\* registered or it returns null).
ApiGetToken(w, acc) ==
    LET rt == RecordToken(w.rec) IN
    IF Truthy(rt)
    THEN [w |-> [w EXCEPT !.mir = rt], ret |-> rt, src |-> "record"]
    ELSE IF Truthy(acc)
    THEN [w |-> [w EXCEPT !.mir = acc], ret |-> acc, src |-> "accessor"]
    ELSE IF Truthy(w.mir)
    THEN [w |-> [w EXCEPT !.rec = MigrateLegacy(w.rec, w.mir)],
          ret |-> w.mir, src |-> "legacy"]
    ELSE [w |-> w, ret |-> None, src |-> "none"]

\* The Authorization header the request interceptor attaches (None = none).
Credential(ret) == IF Truthy(ret) THEN ret ELSE None

\* ApiClient.clearToken(): the registered clear accessor, then removeItem.
ApiClearToken(w, clear) ==
    LET c == CASE clear = "init" -> InitClear(w)
               [] clear = "rehydrate" -> RehydrateClear(w)
               [] OTHER -> w
    IN  [c EXCEPT !.mir = None]

\* The record patch of the 401 handler: token and user set to null when the
\* key holds something that parses.
PatchCleared(rec) ==
    CASE rec.kind = "absent"  -> rec
      [] rec.kind = "corrupt" -> rec
      [] OTHER -> OkRec(None, None, rec.version)

\* The 401 branch of the response interceptor, at pathname group loc.
OnLoginView(loc) == loc = "login"

Handle401(w, loc, clear) ==
    IF OnLoginView(loc) THEN w
    ELSE LET c == ApiClearToken(w, clear)
         IN  [c EXCEPT !.rec = PatchCleared(c.rec)]

\* ApiClient.setToken(token); registered: getAuthToken is set.
ApiSetToken(w, t, registered) ==
    IF registered
    THEN CASE w.rec.kind = "absent"  -> [w EXCEPT !.rec = OkRec(t, None, CurrentVersion)]
           [] w.rec.kind = "corrupt" -> [w EXCEPT !.mir = t]
           [] w.rec.kind = "nostate" -> [w EXCEPT !.rec = OkRec(t, None, w.rec.version)]
           [] OTHER -> [w EXCEPT !.rec.token = t]
    ELSE [w EXCEPT !.mir = t]

Registered == accClear # "none"

\* The try { ... } catch (e) { } blocks of ApiClient, by what they guard: the
\* record read of getToken, its legacy migration, the record patch of the 401
\* handler and the record write of setToken.
CatchSites == {"getToken.record", "getToken.migrate", "handler.patch", "setToken.record"}

\* The catch blocks with the one around the legacy migration missing.
Caught_MigrationUnguarded(site) == site \in CatchSites \ {"getToken.migrate"}

\* An exception raised at this site is swallowed by its catch block.
Caught(site) == site \in CatchSites

\* JSON.parse(authStorage) throws, or `parsed.state` is read of JSON null.
ParseThrows(rec) == rec.kind = "corrupt"

\* An exception raised while working on rec at this site leaves the function.
Escapes(rec, site) == ParseThrows(rec) /\ ~Caught(site)

\* getToken() ends by an exception: the record read throws uncaught, or the
\* legacy fallback is taken and its migration throws uncaught.
ApiGetTokenThrows(w, acc) ==
    \/ Escapes(w.rec, "getToken.record")
    \/ /\ ~Truthy(RecordToken(w.rec)) /\ ~Truthy(acc) /\ Truthy(w.mir)
       /\ Escapes(w.rec, "getToken.migrate")

\* The 401 branch ends by an exception: the patch of the record that
\* clearToken() left throws uncaught.
Handle401Throws(w, loc, clear) ==
    /\ ~OnLoginView(loc)
    /\ Escapes(ApiClearToken(w, clear).rec, "handler.patch")

(***************************************************************************)
(* Page loads and React effects                                            *)
(***************************************************************************)
Locations == {"login", "dashboard"}

\* Full document load of route group target: the store module is evaluated
\* (hydration, then the onRehydrateStorage registration, then the module-level
\* registration, which replaces it), everything in memory starts afresh.
PageLoad(target, persistAfter) ==
    LET w == LoadStore([World EXCEPT !.tok = None, !.usr = None, !.auth = FALSE],
                       persistAfter)
    IN  /\ SetWorld(w)
        /\ accGet' = w.tok
        /\ accClear' = "init"
        /\ location' = target
        /\ pendingNav' = None
        /\ inflight' = <<>>
        /\ sent' = 0
        /\ loginPc' = "idle"
        /\ loginTok' = None
        /\ loginTimer' = (target = "login")
        /\ guardClient' = FALSE
        /\ guardTimer' = FALSE
        /\ guardChecked' = FALSE
        /\ redirects' = 0
        /\ UNCHANGED <<tornDown, calls, rets, guardPushes, notifVars, busVars>>

\* The browser commits a navigation started by `window.location.href = ...`.
Navigate ==
    /\ pendingNav # None
    /\ \E p \in BOOLEAN : PageLoad(pendingNav[1], p)

\* The user opens or reloads a page.
UserOpens(target) ==
    \E p \in BOOLEAN : PageLoad(target, p)

\* Effects of LoginPage and DashboardLayout after an action that leaves the
\* document at route group loc2: a page that mounts arms its timer, a mounted
\* page re-arms it when token or isAuthenticated changed (effect dependencies),
\* an unmounted page clears it.
Effects(loc2) ==
    LET changed == memToken' # memToken \/ memAuth' # memAuth IN
    /\ location' = loc2
    /\ loginTimer' = IF loc2 # "login" THEN FALSE
                     ELSE IF location # "login" THEN TRUE
                     ELSE loginTimer \/ changed
    /\ guardClient' = (loc2 = "dashboard" /\ location = "dashboard" /\ guardClient)
    /\ guardTimer' = (guardClient' /\ (guardTimer \/ changed))
    /\ guardChecked' = (loc2 = "dashboard" /\ location = "dashboard" /\ guardChecked)

\* `token || localStorage.getItem("auth_token")`, `isAuthenticated || !!currentToken`
HasAuth == memAuth \/ Truthy(memToken) \/ Truthy(lsMirror)

\* DashboardLayout's first effect with checkAuth called at once instead of
\* through setTimeout.
GuardSetClient_ChecksAtOnce ==
    /\ location = "dashboard"
    /\ ~guardClient
    /\ UNCHANGED <<memToken, memUser, memAuth, lsRecord, lsMirror>>
    /\ IF HasAuth
       THEN /\ guardClient' = TRUE
            /\ guardChecked' = TRUE
            /\ UNCHANGED <<location, loginTimer, guardTimer, guardPushes>>
       ELSE /\ Effects("login")
            /\ guardPushes' = (guardPushes + 1) % 2
    /\ UNCHANGED <<accGet, accClear, pendingNav, inflight, sent, loginPc, loginTok,
                   redirects, tornDown, calls, rets, notifVars, busVars>>

\* DashboardLayout, first effect: setIsClient(true); the second effect then
\* schedules checkAuth.
GuardSetClient ==
    /\ location = "dashboard"
    /\ ~guardClient
    /\ guardClient' = TRUE
    /\ guardTimer' = TRUE
    /\ UNCHANGED <<memToken, memUser, memAuth, lsRecord, lsMirror, accGet, accClear,
                   location, pendingNav, inflight, sent, loginPc, loginTok,
                   loginTimer, guardChecked, redirects, tornDown, calls, rets, guardPushes,
                   notifVars, busVars>>

\* DashboardLayout.checkAuth (timer callback)
GuardCheck ==
    /\ location = "dashboard"
    /\ guardClient
    /\ guardTimer
    /\ UNCHANGED <<memToken, memUser, memAuth, lsRecord, lsMirror>>
    /\ IF HasAuth
       THEN /\ guardChecked' = TRUE
            /\ guardTimer' = FALSE
            /\ UNCHANGED <<location, loginTimer, guardClient, guardPushes>>
       ELSE /\ Effects("login")
            /\ guardPushes' = (guardPushes + 1) % 2
    /\ UNCHANGED <<accGet, accClear, pendingNav, inflight, sent, loginPc, loginTok,
                   redirects, tornDown, calls, rets, notifVars, busVars>>

\* LoginPage.checkAuth (timer callback)
LoginCheck ==
    /\ location = "login"
    /\ loginTimer
    /\ UNCHANGED <<memToken, memUser, memAuth, lsRecord, lsMirror>>
    /\ IF HasAuth
       THEN Effects("dashboard")
       ELSE /\ loginTimer' = FALSE
            /\ UNCHANGED <<location, guardClient, guardTimer, guardChecked>>
    /\ UNCHANGED <<accGet, accClear, pendingNav, inflight, sent, loginPc, loginTok,
                   redirects, tornDown, calls, rets, guardPushes,
                   notifVars, busVars>>

(***************************************************************************)
(* Requests through apiClient                                              *)
(***************************************************************************)
Remove(q, i) == SubSeq(q, 1, i - 1) \o SubSeq(q, i + 1, Len(q))

\* A request as the request interceptor sends it: the credential attached and,
\* for reference, the store's token at that moment.
Request(kind, ret) == [kind |-> kind, cred |-> Credential(ret), tok |-> memToken]

\* A component of a protected page calls apiClient.get / apiClient.post.
SendRequest ==
    /\ location = "dashboard"
    /\ guardChecked
    /\ sent < MaxSent
    /\ Len(inflight) < MaxInflight
    /\ LET g == ApiGetToken(World, accGet) IN
        /\ SetWorld(g.w)
        /\ inflight' = Append(inflight, Request("api", g.ret))
    /\ sent' = sent + 1
    /\ UNCHANGED <<accGet, accClear, location, pendingNav, loginPc, loginTok,
                   loginTimer, guardClient, guardTimer, guardChecked, redirects,
                   tornDown, calls, rets, guardPushes,
                   notifVars, busVars>>

\* What the 401 branch does besides the session state: the assignment
\* window.location.href = "/auth/login".
Redirect401 ==
    IF OnLoginView(location)
    THEN UNCHANGED <<pendingNav, redirects, tornDown>>
    ELSE /\ pendingNav' = Some("login")
         /\ redirects' = redirects + 1
         /\ tornDown' = TRUE

\* Response interceptor, error callback, status 401.
Response401(i) ==
    /\ i \in 1..Len(inflight)
    /\ inflight[i].kind = "api"
    /\ SetWorld(Handle401(World, location, accClear))
    /\ Redirect401
    /\ inflight' = Remove(inflight, i)
    /\ Effects(location)
    /\ UNCHANGED <<accGet, accClear, sent, loginPc, loginTok, calls, rets, guardPushes,
                   notifVars, busVars>>

\* Any other answer (success, another status, timeout): no session effect.
ResponseOther(i) ==
    /\ i \in 1..Len(inflight)
    /\ inflight[i].kind = "api"
    /\ inflight' = Remove(inflight, i)
    /\ UNCHANGED <<memToken, memUser, memAuth, lsRecord, lsMirror, accGet, accClear,
                   location, pendingNav, sent, loginPc, loginTok, loginTimer,
                   guardClient, guardTimer, guardChecked, redirects, tornDown,
                   calls, rets, guardPushes,
                   notifVars, busVars>>

(***************************************************************************)
(* Login: LoginPage.handleSubmit, authApi.login, authApi.getCurrentUser    *)
(***************************************************************************)

\* handleSubmit up to the POST /auth/login leaving the request interceptor.
LoginSubmit ==
    /\ location = "login"
    /\ loginPc = "idle"
    /\ sent < MaxSent
    /\ LET g == ApiGetToken(World, accGet) IN
        /\ SetWorld(g.w)
        /\ inflight' = Append(inflight, Request("login", g.ret))
    /\ sent' = sent + 1
    /\ loginPc' = "posting"
    /\ UNCHANGED <<accGet, accClear, location, pendingNav, loginTok, loginTimer,
                   guardClient, guardTimer, guardChecked, redirects, tornDown,
                   calls, rets, guardPushes,
                   notifVars, busVars>>

\* authApi.login after the POST resolved with access_token t:
\* `if (access_token) apiClient.setToken(access_token)`, return.
LoginPostOk(i, t) ==
    /\ i \in 1..Len(inflight)
    /\ inflight[i].kind = "login"
    /\ SetWorld(IF Truthy(Some(t)) THEN ApiSetToken(World, Some(t), Registered) ELSE World)
    /\ inflight' = Remove(inflight, i)
    /\ loginTok' = Some(t)
    /\ loginPc' = "returned"
    /\ tornDown' = FALSE
    /\ UNCHANGED <<accGet, accClear, location, pendingNav, sent, loginTimer,
                   guardClient, guardTimer, guardChecked, redirects, calls, rets, guardPushes,
                   notifVars, busVars>>

\* The POST failed: the response interceptor runs (401 branch on a 401), then
\* handleSubmit's outer catch shows the error.
LoginPostFail(i, is401) ==
    /\ i \in 1..Len(inflight)
    /\ inflight[i].kind = "login"
    /\ IF is401
       THEN SetWorld(Handle401(World, location, accClear)) /\ Redirect401
       ELSE UNCHANGED <<memToken, memUser, memAuth, lsRecord, lsMirror,
                        pendingNav, redirects, tornDown>>
    /\ inflight' = Remove(inflight, i)
    /\ loginPc' = "idle"
    /\ Effects(location)
    /\ UNCHANGED <<accGet, accClear, sent, loginTok, calls, rets, guardPushes,
                   notifVars, busVars>>

\* handleSubmit resumes: setToken(response.access_token), then
\* authApi.getCurrentUser() sends GET /auth/me through the request interceptor.
LoginStoreToken ==
    /\ loginPc = "returned"
    /\ LET w == StoreSetToken(World, loginTok)
           g == ApiGetToken(w, accGet)
       IN  /\ SetWorld(g.w)
           /\ inflight' = Append(inflight,
                  [kind |-> "me", cred |-> Credential(g.ret), tok |-> w.tok])
    /\ sent' = sent + 1
    /\ loginPc' = "fetchingMe"
    /\ Effects(location)
    /\ UNCHANGED <<accGet, accClear, pendingNav, loginTok, redirects, tornDown,
                   calls, rets, guardPushes,
                   notifVars, busVars>>

\* GET /auth/me resolved: setUser(user); window.location.href = "/dashboard".
LoginMeOk(i, u) ==
    /\ i \in 1..Len(inflight)
    /\ inflight[i].kind = "me"
    /\ loginPc = "fetchingMe"
    /\ SetWorld(StoreSetUser(World, Some(u)))
    /\ inflight' = Remove(inflight, i)
    /\ pendingNav' = Some("dashboard")
    /\ loginPc' = "done"
    /\ Effects(location)
    /\ UNCHANGED <<accGet, accClear, sent, loginTok, redirects, tornDown, calls, rets, guardPushes,
                   notifVars, busVars>>

\* GET /auth/me failed: the response interceptor runs, the inner catch logs,
\* and handleSubmit still assigns window.location.href = "/dashboard".
LoginMeFail(i, is401) ==
    /\ i \in 1..Len(inflight)
    /\ inflight[i].kind = "me"
    /\ loginPc = "fetchingMe"
    /\ IF is401 /\ ~OnLoginView(location)
       THEN /\ SetWorld(Handle401(World, location, accClear))
            /\ redirects' = redirects + 1
            /\ tornDown' = TRUE
       ELSE /\ SetWorld(IF is401 THEN Handle401(World, location, accClear) ELSE World)
            /\ UNCHANGED <<redirects, tornDown>>
    /\ inflight' = Remove(inflight, i)
    /\ pendingNav' = Some("dashboard")
    /\ loginPc' = "done"
    /\ Effects(location)
    /\ UNCHANGED <<accGet, accClear, sent, loginTok, calls, rets, guardPushes,
                   notifVars, busVars>>

(***************************************************************************)
(* Logout handlers                                                         *)
(***************************************************************************)

\* Sidebar.handleLogout: logout(); router.push("/auth/login")
SidebarLogout ==
    /\ location = "dashboard"
    /\ guardChecked
    /\ SetWorld(StoreLogout(World))
    /\ Effects("login")
    /\ UNCHANGED <<accGet, accClear, pendingNav, inflight, sent, loginPc, loginTok,
                   redirects, tornDown, calls, rets, guardPushes,
                   notifVars, busVars>>

\* authApi.logout(): apiClient.setToken(""); window.location.href = "/auth/login"
AuthApiLogout(w) == ApiSetToken(w, Some(""), Registered)

\* SettingsPage.handleLogout: authApi.logout(); logout()
SettingsLogout ==
    /\ location = "dashboard"
    /\ guardChecked
    /\ SetWorld(StoreLogout(AuthApiLogout(World)))
    /\ pendingNav' = Some("login")
    /\ Effects(location)
    /\ UNCHANGED <<accGet, accClear, inflight, sent, loginPc, loginTok, redirects,
                   tornDown, calls, rets, guardPushes,
                   notifVars, busVars>>

(***************************************************************************)
(* The notification store (lib/utils/notifications)                        *)
(***************************************************************************)
MAX_NOTIFICATIONS == 50

NotificationTypes == {"success", "error", "warning", "info"}

\* The values Math.random() contributes to an id.
RandomParts == {1, 2}

\* JSON.stringify writes a Date as its ISO string; new Date(string) reads the
\* instant back.
ToJSON(t) == <<"iso", t>>
NewDate(str) == str[2]
Serialize(n) == [n EXCEPT !.timestamp = ToJSON(n.timestamp)]
Revive(n) == [n EXCEPT !.timestamp = NewDate(n.timestamp)]

\* Content of localStorage["notifications"]:
\*   absent    the key is not set (or holds the empty string)
\*   corrupt   JSON.parse throws
\*   nonarray  parses to a value without a map method (object, number, null)
\*   list      an array of serialized notifications
AbsentNotifs == [kind |-> "absent", items |-> <<>>]
CorruptNotifs == [kind |-> "corrupt", items |-> <<>>]
NonArrayNotifs == [kind |-> "nonarray", items |-> <<>>]
ListNotifs(items) == [kind |-> "list", items |-> items]

\* The try { ... } catch blocks of the notification utilities.
NotifCatchSites == {"getNotifications", "saveNotifications"}

\* No catch block around the body of getNotifications.
NotifCaught_ReadUnguarded(site) == site \in NotifCatchSites \ {"getNotifications"}

NotifCaught(site) == site \in NotifCatchSites

\* JSON.parse(stored) throws, or parsed.map is not a function.
NotifReadThrows(s) == s.kind \in {"corrupt", "nonarray"}

\* getNotifications() ends by an exception.
GetNotificationsThrows(s) == NotifReadThrows(s) /\ ~NotifCaught("getNotifications")

\* getNotifications(): [] when the key is absent or reading it threw.
GetNotifications(s) ==
    IF s.kind = "list"
    THEN [i \in 1..Len(s.items) |-> Revive(s.items[i])]
    ELSE <<>>

\* Array.prototype.slice(0, n)
Slice(list, n) == SubSeq(list, 1, IF Len(list) < n THEN Len(list) ELSE n)

RECURSIVE SortFrom(_, _)
SortFrom(list, t) ==
    IF t < 0 THEN <<>>
    ELSE SelectSeq(list, LAMBDA n : n.timestamp = t) \o SortFrom(list, t - 1)

\* sort((a, b) => a.timestamp - b.timestamp): oldest first.
SortOldestFirst(list) ==
    LET d == SortFrom(list, MaxTime)
    IN  [i \in 1..Len(d) |-> d[Len(d) + 1 - i]]

\* sort((a, b) => b.timestamp.getTime() - a.timestamp.getTime()): newest
\* first, entries of one instant in the order they had (the sort is stable).
SortNewestFirst(list) == SortFrom(list, MaxTime)

\* saveNotifications without the slice.
SaveNotifications_Unbounded(list) ==
    LET sorted == SortNewestFirst(list)
    IN  ListNotifs([i \in 1..Len(sorted) |-> Serialize(sorted[i])])

\* saveNotifications(notifications)
SaveNotifications(list) ==
    LET sorted == Slice(SortNewestFirst(list), MAX_NOTIFICATIONS)
    IN  ListNotifs([i \in 1..Len(sorted) |-> Serialize(sorted[i])])

\* The entry createNotification builds at instant t with random part r.
NewNotification(type, t, r) ==
    [id |-> <<t, r>>, type |-> type, timestamp |-> t, read |-> FALSE]

\* createNotification with the new entry put after the existing ones.
CreateNotification_Appended(s, type, t, r) ==
    LET n == NewNotification(type, t, r)
    IN  [store |-> SaveNotifications(GetNotifications(s) \o <<n>>), ret |-> n]

\* createNotification(type, title, message): the new store and the entry
\* returned.
CreateNotification(s, type, t, r) ==
    LET n == NewNotification(type, t, r)
    IN  [store |-> SaveNotifications(<<n>> \o GetNotifications(s)), ret |-> n]

\* markNotificationAsRead(id)
MarkNotificationAsRead(s, id) ==
    LET l == GetNotifications(s)
    IN  SaveNotifications([i \in 1..Len(l) |->
            IF l[i].id = id THEN [l[i] EXCEPT !.read = TRUE] ELSE l[i]])

\* deleteNotification(id)
DeleteNotification(s, id) ==
    SaveNotifications(SelectSeq(GetNotifications(s), LAMBDA n : n.id # id))

\* markAllAsRead()
MarkAllAsRead(s) ==
    LET l == GetNotifications(s)
    IN  SaveNotifications([i \in 1..Len(l) |-> [l[i] EXCEPT !.read = TRUE]])

\* clearAllNotifications()
ClearAllNotifications == SaveNotifications(<<>>)

\* getUnreadCount counting every entry.
GetUnreadCount_All(s) == Len(GetNotifications(s))

\* getUnreadCount()
GetUnreadCount(s) == Len(SelectSeq(GetNotifications(s), LAMBDA n : ~n.read))

InitNotifications ==
    /\ lsNotifs = AbsentNotifs
    /\ now = 0

(***************************************************************************)
(* Dashboard pages, the window event target, the vault's ingest handler    *)
(***************************************************************************)
ViewKinds == {"vault", "graph", "requests"}

NoView == [kind |-> "none", id |-> 0, ready |-> FALSE]

\* An entry of the bus log.  kind:
\*   listen    addEventListener('graph-data-updated', handler of viewer)
\*   unlisten  removeEventListener('graph-data-updated', handler of viewer)
\*   publish   dispatchEvent of occurrence ev entered
\*   handler   handleGraphUpdate of viewer called with occurrence ev
\*   load      loadAllGraphData() of viewer started
\* and, written by the ingest handler of click req on vault page viewer:
\*   refused   the file id was rejected, nothing was sent
\*   resolved  mutateAsync resolved with the response in detail
\*   rejected  mutateAsync rejected
\*   dispatch  the CustomEvent of occurrence ev was built with this detail
\*   notify    createNotification(detail, ...) was called; ev is the
\*             occurrence the handler dispatched when this is its closing
\*             notification, 0 otherwise
BusEntry(kind, viewer, ev) ==
    [kind |-> kind, viewer |-> viewer, ev |-> ev, req |-> 0, detail |-> <<>>]

IngestEntry(kind, h, ev, detail) ==
    [kind |-> kind, viewer |-> h.owner, ev |-> ev, req |-> h.id, detail |-> detail]

\* window.addEventListener / window.removeEventListener with the handler the
\* effect of GraphPage instance v closed over.
AddEventListener(ls, v) == ls \cup {v}

\* The cleanup removing another function than the one that was added.
RemoveEventListener_OtherHandler(ls, v) == ls

RemoveEventListener(ls, v) == ls \ {v}

\* handleGraphUpdate of instance v: console.log, loadAllGraphData().
HandleGraphUpdate(v, ev) == <<BusEntry("handler", v, ev), BusEntry("load", v, ev)>>

RECURSIVE CallListeners(_, _)
CallListeners(ls, ev) ==
    IF ls = {} THEN <<>>
    ELSE LET v == CHOOSE x \in ls : \A y \in ls : x <= y
         IN  HandleGraphUpdate(v, ev) \o CallListeners(ls \ {v}, ev)

\* window.dispatchEvent(new CustomEvent('graph-data-updated')): the listeners
\* registered now are called in the order they were added, then it returns.
DispatchEvent(ls, ev) == <<BusEntry("publish", 0, ev)>> \o CallListeners(ls, ev)

\* GraphPage's effects with the last occurrence handed to a new listener.
GraphPageEffects_Replayed(v) ==
    <<BusEntry("load", v, 0), BusEntry("listen", v, 0)>>
      \o (IF published > 0 THEN HandleGraphUpdate(v, published) ELSE <<>>)

\* GraphPage's effects without the load on mount.
GraphPageEffects_ListenOnly(v) == <<BusEntry("listen", v, 0)>>

\* GraphPage's two effects after mount: loadAllGraphData(), then
\* addEventListener.
GraphPageEffects(v) == <<BusEntry("load", v, 0), BusEntry("listen", v, 0)>>

\* useState initial values of GraphPage: no nodes, not loading, no error.
NoGraph == [nodes |-> None, loading |-> FALSE, error |-> FALSE, failed |-> {}]

\* The graph data of the backend counted in ingestions: what a request reads
\* after log position j contains every ingestion that resolved as completed
\* before j.
VersionAt(j) ==
    Cardinality({r \in 1..Len(busLog) :
        /\ r < j
        /\ busLog[r].kind = "resolved"
        /\ busLog[r].detail.status = "completed"})

\* loadAllGraphData() up to `await getAllGraphData(200)` for the load entries
\* that busLog' adds: the request is sent; setIsLoading(true), setError(null)
\* take effect in the instance that is mounted.
StartLoads ==
    LET new == {i \in (Len(busLog) + 1)..Len(busLog') : busLog'[i].kind = "load"}
    IN  /\ loads' = loads \cup new
        /\ graph' = IF \E i \in new : busLog'[i].viewer = view.id
                    THEN [graph EXCEPT !.loading = TRUE, !.error = FALSE]
                    ELSE graph

\* useState initial value of RequestsPage's notifications; no timer.
NoPanel == [list |-> <<>>, timer |-> FALSE]

\* RequestsPage unmounted with its interval left registered.
PanelCleanup_KeepsInterval(p) == [p EXCEPT !.list = <<>>]

\* RequestsPage unmounted: the polling effect's cleanup, clearInterval.
PanelCleanup(p) == NoPanel

\* The page that is mounted is unmounted: GraphPage's effect cleanup runs when
\* its effects had run.
Unmounted ==
    IF view.kind = "graph" /\ view.ready
    THEN /\ listeners' = RemoveEventListener(listeners, view.id)
         /\ busLog' = Append(busLog, BusEntry("unlisten", view.id, 0))
    ELSE UNCHANGED <<listeners, busLog>>

\* The router shows another dashboard page.
OpenView(k) ==
    /\ k # view.kind
    /\ mounts < MaxMounts
    /\ Unmounted
    /\ view' = [kind |-> k, id |-> mounts + 1, ready |-> FALSE]
    /\ mounts' = mounts + 1
    /\ graph' = NoGraph
    /\ panel' = IF view.kind = "requests" /\ view.ready THEN PanelCleanup(panel)
                ELSE panel
    /\ UNCHANGED <<ingests, clicks, published, loads, sessionVars, notifVars, calls,
                   rets>>

\* React runs GraphPage's effects.
GraphEffects ==
    /\ view.kind = "graph"
    /\ ~view.ready
    /\ listeners' = AddEventListener(listeners, view.id)
    /\ busLog' = busLog \o GraphPageEffects(view.id)
    /\ StartLoads
    /\ view' = [view EXCEPT !.ready = TRUE]
    /\ UNCHANGED <<mounts, ingests, clicks, published, panel, sessionVars, notifVars, calls, rets>>

\* createNotification(type, ...) on the stored list, at the current instant.
Notify(s, type, r) == CreateNotification(s, type, now, r).store

\* The responses of POST /ingest the handler tells apart.
IngestResults ==
    {[status |-> st, entities |-> e, relations |-> 2 * e] :
        st \in {"completed", "skipped_duplicate"}, e \in {0, 1}}

\* The notification that ends a successful ingest.
ResultType(status, entities) ==
    IF status = "skipped_duplicate" THEN "info"
    ELSE IF entities = 0 THEN "warning"
    ELSE "success"

\* The payload of the event.
Detail(result) ==
    [entities_extracted |-> result.entities,
     relations_extracted |-> result.relations]

\* The end of the try block with the event left out for a file that had been
\* ingested before.
Announce_UnlessDuplicate(h, ev, result) ==
    (IF result.status = "skipped_duplicate" THEN <<>>
     ELSE <<IngestEntry("dispatch", h, ev, Detail(result))>>
            \o DispatchEvent(listeners, ev))
      \o <<IngestEntry("notify", h, ev, ResultType(result.status, result.entities))>>

\* The end of the try block: the event is built and dispatched, then the
\* closing notification is created.
Announce(h, ev, result) ==
    <<IngestEntry("dispatch", h, ev, Detail(result))>>
      \o DispatchEvent(listeners, ev)
      \o <<IngestEntry("notify", h, ev, ResultType(result.status, result.entities))>>

\* The dispatch of the ingest handler h, after the entries `before`.
Publish(h, result, before) ==
    /\ published' = published + 1
    /\ busLog' = busLog \o before \o Announce(h, published + 1, result)
    /\ StartLoads

\* The ingest button's onClick up to `await ingestMutation.mutateAsync(fileId)`:
\* nothing while a mutation of this page instance is pending; an error
\* notification when the file has no usable id.
IngestClick(valid) ==
    /\ view.kind = "vault"
    /\ clicks < MaxClicks
    /\ Len(ingests) < MaxIngests
    /\ \A i \in 1..Len(ingests) : ingests[i].owner # view.id
    /\ clicks' = clicks + 1
    /\ LET h == [owner |-> view.id, id |-> clicks + 1, pc |-> "mutating",
                 result |-> <<>>]
       IN  IF valid
           THEN /\ ingests' = Append(ingests, h)
                /\ UNCHANGED <<lsNotifs, busLog>>
           ELSE /\ \E r \in RandomParts : lsNotifs' = Notify(lsNotifs, "error", r)
                /\ busLog' = busLog \o <<IngestEntry("refused", h, 0, <<>>),
                                         IngestEntry("notify", h, 0, "error")>>
                /\ UNCHANGED ingests
    /\ UNCHANGED <<view, mounts, listeners, published, loads, graph, now, panel, sessionVars,
                   calls, rets>>

\* mutateAsync resolved.  With no entity extracted from a file that was not a
\* duplicate the handler awaits the diagnostics next; otherwise it dispatches
\* the event, creates the closing notification and ends.
IngestResolve(i, result) ==
    /\ i \in 1..Len(ingests)
    /\ ingests[i].pc = "mutating"
    /\ LET resolved == IngestEntry("resolved", ingests[i], 0, result)
       IN  IF result.entities = 0 /\ result.status # "skipped_duplicate"
           THEN /\ ingests' = [ingests EXCEPT ![i].pc = "diagnosing",
                                                 ![i].result = result]
                /\ busLog' = Append(busLog, resolved)
                /\ UNCHANGED <<lsNotifs, published, loads, graph>>
           ELSE /\ Publish(ingests[i], result, <<resolved>>)
                /\ \E r \in RandomParts :
                       lsNotifs' = Notify(lsNotifs,
                                          ResultType(result.status, result.entities), r)
                /\ ingests' = Remove(ingests, i)
    /\ UNCHANGED <<view, mounts, listeners, clicks, now, panel, sessionVars, calls, rets>>

\* getIngestionDiagnostics() answered (or failed, which the inner catch
\* logs): an error notification when the LLM or the extractor is missing, then
\* the dispatch and the closing notification.
IngestDiagnosed(i, finding) ==
    /\ i \in 1..Len(ingests)
    /\ ingests[i].pc = "diagnosing"
    /\ LET h == ingests[i]
           missing == finding \in {"llm_missing", "extractor_missing"}
       IN  /\ Publish(h, h.result,
                      IF missing THEN <<IngestEntry("notify", h, 0, "error")>>
                      ELSE <<>>)
           /\ \E r1, r2 \in RandomParts :
                 LET s1 == IF missing THEN Notify(lsNotifs, "error", r1)
                           ELSE lsNotifs
                 IN  lsNotifs' = Notify(s1, ResultType(h.result.status,
                                                       h.result.entities), r2)
    /\ ingests' = Remove(ingests, i)
    /\ UNCHANGED <<view, mounts, listeners, clicks, now, panel, sessionVars, calls, rets>>

\* mutateAsync rejected: the catch block returns silently on a browser media
\* error without a response, and creates an error notification otherwise.
IngestReject(i, suppressed) ==
    /\ i \in 1..Len(ingests)
    /\ ingests[i].pc = "mutating"
    /\ LET rejected == IngestEntry("rejected", ingests[i], 0, <<>>)
       IN  IF suppressed
           THEN /\ busLog' = Append(busLog, rejected)
                /\ UNCHANGED lsNotifs
           ELSE /\ busLog' = busLog \o <<rejected,
                                          IngestEntry("notify", ingests[i], 0, "error")>>
                /\ \E r \in RandomParts : lsNotifs' = Notify(lsNotifs, "error", r)
    /\ ingests' = Remove(ingests, i)
    /\ UNCHANGED <<view, mounts, listeners, clicks, published, loads, graph, now,
                   panel, sessionVars, calls, rets>>

\* The user presses Enter in the empty entity field: handleKeyPress,
\* handleLoadGraph, loadAllGraphData().
IsReload(e) == e.kind = "load" /\ e.detail = "manual"

ManualLoad ==
    /\ view.kind = "graph"
    /\ view.ready
    /\ Cardinality({i \in 1..Len(busLog) : IsReload(busLog[i])}) < MaxReloads
    /\ busLog' = Append(busLog, [BusEntry("load", view.id, 0) EXCEPT !.detail = "manual"])
    /\ StartLoads
    /\ UNCHANGED <<view, mounts, listeners, ingests, clicks, published, panel, sessionVars,
                   notifVars, calls, rets>>

\* The answer to the request of load l is the graph as of some moment between
\* the request and now: setGraphNodes, setGraphEdges, setIsLoading(false) in
\* the instance that sent it, when that is still mounted.
LoadDone(l, d) ==
    /\ l \in loads
    /\ d \in VersionAt(l)..VersionAt(Len(busLog) + 1)
    /\ loads' = loads \ {l}
    /\ graph' = IF busLog[l].viewer = view.id
                THEN [graph EXCEPT !.nodes = Some([at |-> l, data |-> d]),
                                   !.loading = FALSE]
                ELSE graph
    /\ UNCHANGED <<view, mounts, listeners, busLog, ingests, clicks, published,
                   panel, sessionVars, notifVars, calls, rets>>

\* The request of load l fails: setError unless the status is 404,
\* setIsLoading(false).
LoadFail(l, notFound) ==
    /\ l \in loads
    /\ loads' = loads \ {l}
    /\ graph' = IF busLog[l].viewer = view.id
                THEN [graph EXCEPT !.error = (@ \/ ~notFound),
                                   !.loading = FALSE,
                                   !.failed = @ \cup {l}]
                ELSE graph
    /\ UNCHANGED <<view, mounts, listeners, busLog, ingests, clicks, published,
                   panel, sessionVars, notifVars, calls, rets>>

\* A step of RequestsPage as the call log keeps it: what was displayed and
\* stored before, what is stored and displayed after.
PanelCall(op, arg, s, shown) ==
    [op |-> op, arg |-> arg, before |-> panel.list,
     pre |-> GetNotifications(lsNotifs), post |-> GetNotifications(s),
     shown |-> shown]

\* A step of RequestsPage that leaves s stored and shows the list `shown`.
PanelStep(op, arg, s, shown) ==
    /\ lsNotifs' = s
    /\ panel' = [panel EXCEPT !.list = shown]
    /\ rets' = <<PanelCall(op, arg, s, shown)>>

\* React runs RequestsPage's effects: the stored list is loaded and the
\* 5-second interval is registered.
PanelEffects ==
    /\ view.kind = "requests"
    /\ ~view.ready
    /\ lsNotifs' = lsNotifs
    /\ panel' = [list |-> GetNotifications(lsNotifs), timer |-> TRUE]
    /\ rets' = <<PanelCall("mount", <<>>, lsNotifs, GetNotifications(lsNotifs))>>
    /\ view' = [view EXCEPT !.ready = TRUE]
    /\ UNCHANGED <<mounts, listeners, busLog, ingests, clicks, published, loads, graph,
                   now, sessionVars, calls>>

\* What the page's handlers leave alone.
PanelFrame ==
    UNCHANGED <<view, mounts, listeners, busLog, ingests, clicks, published, loads,
                graph, now, sessionVars, calls>>

\* The interval fires: setNotifications(getNotifications()), which does
\* nothing in an instance that is no longer mounted.
PanelTick ==
    /\ panel.timer
    /\ PanelStep("tick", <<>>, lsNotifs,
                 IF view.kind = "requests" /\ view.ready
                 THEN GetNotifications(lsNotifs) ELSE panel.list)
    /\ PanelFrame

\* The handlers of a displayed entry and of the list.
Displayed == view.kind = "requests" /\ view.ready

DisplayedIds == {panel.list[i].id : i \in 1..Len(panel.list)}

\* markAsRead with the entry marked in the displayed list and that list saved.
PanelMarkRead_FromDisplayed(id) ==
    /\ Displayed
    /\ id \in DisplayedIds
    /\ LET s == MarkNotificationAsRead(SaveNotifications(panel.list), id)
       IN  PanelStep("markRead", id, s, GetNotifications(s))
    /\ PanelFrame

PanelMarkRead(id) ==
    /\ Displayed
    /\ id \in DisplayedIds
    /\ LET s == MarkNotificationAsRead(lsNotifs, id)
       IN  PanelStep("markRead", id, s, GetNotifications(s))
    /\ PanelFrame

PanelDelete(id) ==
    /\ Displayed
    /\ id \in DisplayedIds
    /\ LET s == DeleteNotification(lsNotifs, id)
       IN  PanelStep("delete", id, s, GetNotifications(s))
    /\ PanelFrame

PanelMarkAll ==
    /\ Displayed
    /\ LET s == MarkAllAsRead(lsNotifs)
       IN  PanelStep("markAll", <<>>, s, GetNotifications(s))
    /\ PanelFrame

PanelClearAll ==
    /\ Displayed
    /\ PanelStep("clearAll", <<>>, ClearAllNotifications, <<>>)
    /\ PanelFrame

\* Time passes.
Tick ==
    /\ now < MaxTime
    /\ now' = now + 1
    /\ UNCHANGED <<lsNotifs, sessionVars, busVars, calls, rets>>

InitDashboard ==
    /\ view = NoView
    /\ mounts = 0
    /\ listeners = {}
    /\ busLog = <<>>
    /\ ingests = <<>>
    /\ clicks = 0
    /\ published = 0
    /\ loads = {}
    /\ graph = NoGraph
    /\ panel = NoPanel

(***************************************************************************)
(* The whole layer                                                         *)
(***************************************************************************)
InitSession ==
    /\ memToken = None
    /\ memUser = None
    /\ memAuth = FALSE
    /\ lsRecord \in {AbsentRec, OkRec(None, None, CurrentVersion)}
    /\ lsMirror = None
    /\ accGet = None
    /\ accClear = "init"
    /\ location \in Locations
    /\ pendingNav = None
    /\ inflight = <<>>
    /\ sent = 0
    /\ loginPc = "idle"
    /\ loginTok = None
    /\ loginTimer = (location = "login")
    /\ guardClient = FALSE
    /\ guardTimer = FALSE
    /\ guardChecked = FALSE
    /\ guardPushes = 0
    /\ redirects = 0
    /\ tornDown = FALSE
    /\ calls = 0
    /\ rets = <<>>

Init ==
    /\ InitSession
    /\ InitNotifications
    /\ InitDashboard

Next ==
    \/ Navigate
    \/ \E l \in Locations : UserOpens(l)
    \/ GuardSetClient
    \/ GuardCheck
    \/ LoginCheck
    \/ SendRequest
    \/ \E i \in 1..(MaxInflight + 1) : Response401(i)
    \/ \E i \in 1..(MaxInflight + 1) : ResponseOther(i)
    \/ LoginSubmit
    \/ \E i \in 1..(MaxInflight + 1), t \in Tokens : LoginPostOk(i, t)
    \/ \E i \in 1..(MaxInflight + 1), b \in BOOLEAN : LoginPostFail(i, b)
    \/ LoginStoreToken
    \/ \E i \in 1..(MaxInflight + 1), u \in Users : LoginMeOk(i, u)
    \/ \E i \in 1..(MaxInflight + 1), b \in BOOLEAN : LoginMeFail(i, b)
    \/ SidebarLogout
    \/ SettingsLogout

Spec == Init /\ [][Next]_vars

(***************************************************************************)
(* The auth store on its own: its operations called in any order           *)
(***************************************************************************)
StoreFrame ==
    UNCHANGED <<accGet, accClear, location, pendingNav, inflight, sent, loginPc,
                loginTok, loginTimer, guardClient, guardTimer, guardChecked,
                redirects, tornDown, guardPushes,
                   notifVars, busVars>>

\* A store call as the log keeps it: the operation, the world it was applied
\* to and the world it left.
StoreCall(op, w) == [op |-> op, pre |-> World, post |-> w]

CallSetToken(t) ==
    /\ calls < MaxCalls
    /\ LET w == StoreSetToken(World, t) IN
        /\ SetWorld(w)
        /\ rets' = Append(rets, StoreCall("setToken", w))
    /\ calls' = calls + 1
    /\ StoreFrame

CallSetUser(u) ==
    /\ calls < MaxCalls
    /\ LET w == StoreSetUser(World, u) IN
        /\ SetWorld(w)
        /\ rets' = Append(rets, StoreCall("setUser", w))
    /\ calls' = calls + 1
    /\ StoreFrame

CallLogout ==
    /\ calls < MaxCalls
    /\ LET w == StoreLogout(World) IN
        /\ SetWorld(w)
        /\ rets' = Append(rets, StoreCall("logout", w))
    /\ calls' = calls + 1
    /\ StoreFrame

\* One of the two clear closures handed to registerAuthTokenAccessors.
CallClear(which) ==
    /\ calls < MaxCalls
    /\ LET w == IF which = "init" THEN InitClear(World) ELSE RehydrateClear(World) IN
        /\ SetWorld(w)
        /\ rets' = Append(rets, StoreCall("clear", w))
    /\ calls' = calls + 1
    /\ StoreFrame

\* The store is created again over the persisted keys (page reload).
CallReload(persistAfter) ==
    /\ calls < MaxCalls
    /\ LET w == LoadStore([World EXCEPT !.tok = None, !.usr = None, !.auth = FALSE],
                          persistAfter)
       IN  /\ SetWorld(w)
           /\ accGet' = w.tok
           /\ rets' = Append(rets, StoreCall("reload", w))
    /\ calls' = calls + 1
    /\ UNCHANGED <<accClear, location, pendingNav, inflight, sent, loginPc,
                   loginTok, loginTimer, guardClient, guardTimer, guardChecked,
                   redirects, tornDown, guardPushes,
                   notifVars, busVars>>

InitStore ==
    /\ Init
    /\ location = "login"

NextStore ==
    \/ \E t \in TokenValues : CallSetToken(t)
    \/ \E u \in UserValues : CallSetUser(u)
    \/ CallLogout
    \/ \E c \in {"init", "rehydrate"} : CallClear(c)
    \/ \E p \in BOOLEAN : CallReload(p)

SpecStore == InitStore /\ [][NextStore]_vars

(***************************************************************************)
(* ApiClient.getToken over any content of the two persisted keys           *)
(***************************************************************************)
\* A call as the log keeps it: the operation, what it returned and from
\* where, the two keys and the accessor's token before, the two keys after,
\* and whether the call ended by an exception.
KeyCall(op, val, src, w, threw) ==
    [op |-> op, val |-> val, src |-> src,
     rec0 |-> lsRecord, mir0 |-> lsMirror, acc0 |-> accGet,
     rec1 |-> w.rec, mir1 |-> w.mir, threw |-> threw]

KeyFrame ==
    UNCHANGED <<accGet, accClear, location, pendingNav, inflight, sent, loginPc,
                loginTok, loginTimer, guardClient, guardTimer, guardChecked,
                redirects, tornDown, guardPushes,
                   notifVars, busVars>>

CallGetToken ==
    /\ calls < MaxCalls
    /\ LET g == ApiGetToken(World, accGet) IN
        /\ SetWorld(g.w)
        /\ rets' = Append(rets, KeyCall("getToken", g.ret, g.src, g.w,
                                          ApiGetTokenThrows(World, accGet)))
    /\ calls' = calls + 1
    /\ KeyFrame

InitGetToken ==
    /\ memToken = None
    /\ memUser = None
    /\ memAuth = FALSE
    /\ lsRecord \in RecordValues
    /\ lsMirror \in TokenValues
    /\ accGet \in TokenValues
    /\ accClear = "init"
    /\ location = "dashboard"
    /\ pendingNav = None
    /\ inflight = <<>>
    /\ sent = 0
    /\ loginPc = "idle"
    /\ loginTok = None
    /\ loginTimer = FALSE
    /\ guardClient = FALSE
    /\ guardTimer = FALSE
    /\ guardChecked = FALSE
    /\ guardPushes = 0
    /\ redirects = 0
    /\ tornDown = FALSE
    /\ calls = 0
    /\ rets = <<>>
    /\ InitNotifications
    /\ InitDashboard

SpecGetToken == InitGetToken /\ [][CallGetToken]_vars

(***************************************************************************)
(* ApiClient's readers of the persisted keys over any content of the keys  *)
(***************************************************************************)

\* The request interceptor: getToken(), then the Authorization header.
CallRequest ==
    /\ Len(rets) < MaxKeyCalls
    /\ LET g == ApiGetToken(World, accGet) IN
        /\ SetWorld(g.w)
        /\ rets' = Append(rets, KeyCall("request", Credential(g.ret), g.src, g.w,
                                          ApiGetTokenThrows(World, accGet)))
    /\ UNCHANGED calls
    /\ KeyFrame

\* The response interceptor's error callback on a 401 answer.
CallHandle401 ==
    /\ Len(rets) < MaxKeyCalls
    /\ LET w == Handle401(World, location, accClear) IN
        /\ SetWorld(w)
        /\ rets' = Append(rets, KeyCall("handle401", None, "handler", w,
                                          Handle401Throws(World, location, accClear)))
    /\ UNCHANGED calls
    /\ KeyFrame

\* getToken() called directly.
CallRead ==
    /\ Len(rets) < MaxKeyCalls
    /\ CallGetToken

\* Any content of the two keys, at either route group; the accessors are
\* registered (with the token the store held when they were made) or not yet.
InitKeys ==
    /\ memToken = None
    /\ memUser = None
    /\ memAuth = FALSE
    /\ lsRecord \in RecordValues
    /\ lsMirror \in TokenValues
    /\ accClear \in {"none", "init"}
    /\ accGet \in IF accClear = "none" THEN {None} ELSE TokenValues
    /\ location \in Locations
    /\ pendingNav = None
    /\ inflight = <<>>
    /\ sent = 0
    /\ loginPc = "idle"
    /\ loginTok = None
    /\ loginTimer = FALSE
    /\ guardClient = FALSE
    /\ guardTimer = FALSE
    /\ guardChecked = FALSE
    /\ guardPushes = 0
    /\ redirects = 0
    /\ tornDown = FALSE
    /\ calls = 0
    /\ rets = <<>>
    /\ InitNotifications
    /\ InitDashboard

NextKeys ==
    \/ CallRead
    \/ CallRequest
    \/ CallHandle401

SpecKeys == InitKeys /\ [][NextKeys]_vars

(***************************************************************************)
(* The notification utilities called in any order                          *)
(***************************************************************************)

\* A list as n earlier creates and reads left it: the k newest entries
\* stamped 1 (the instant the calls start at), the others 0; none or every
\* second entry read.
Prefilled(n, k, reads) ==
    [i \in 1..n |->
        [id |-> <<IF i <= k THEN 1 ELSE 0, 100 + i>>,
         type |-> "info",
         timestamp |-> IF i <= k THEN 1 ELSE 0,
         read |-> CASE reads = "none" -> FALSE
                    [] reads = "all" -> TRUE
                    [] OTHER -> i % 2 = 0]]

PrefilledLists ==
    UNION {{Prefilled(n, k, reads) :
                k \in {0, 1, n}, reads \in {"none", "alternate"}} :
           n \in {0, MAX_NOTIFICATIONS - 1, MAX_NOTIFICATIONS}}

\* A call as the log keeps it: the operation and its argument, the kind of
\* the stored value and the list read from it before, the list after, the
\* value returned and whether the call ended by an exception.
NotifCall(op, arg, s, ret) ==
    [op |-> op, arg |-> arg, kind0 |-> lsNotifs.kind,
     pre |-> GetNotifications(lsNotifs), post |-> GetNotifications(s),
     ret |-> ret, threw |-> (op # "clear" /\ GetNotificationsThrows(lsNotifs))]

\* The log keeps the last two calls.
LastTwo(log) == IF Len(log) <= 2 THEN log ELSE SubSeq(log, Len(log) - 1, Len(log))

NotifStep(op, arg, s, ret) ==
    /\ calls < MaxNotifCalls
    /\ lsNotifs' = s
    /\ rets' = LastTwo(Append(rets, NotifCall(op, arg, s, ret)))
    /\ calls' = calls + 1
    /\ UNCHANGED <<now, sessionVars, busVars>>

\* The ids a caller passes: of the first and of the last entry listed, and
\* one that no entry carries.
CandidateIds ==
    LET l == GetNotifications(lsNotifs)
    IN  {<<0, 0>>} \cup (IF l = <<>> THEN {} ELSE {l[1].id, l[Len(l)].id})

CallCreate(r) ==
    LET c == CreateNotification(lsNotifs, "info", now, r)
    IN  NotifStep("create", r, c.store, c.ret)

CallMarkRead(id) ==
    NotifStep("markRead", id, MarkNotificationAsRead(lsNotifs, id), None)

CallDelete(id) ==
    NotifStep("remove", id, DeleteNotification(lsNotifs, id), None)

CallMarkAll ==
    NotifStep("markAllRead", None, MarkAllAsRead(lsNotifs), None)

CallClearAll ==
    NotifStep("clear", None, ClearAllNotifications, None)

CallList ==
    NotifStep("list", None, lsNotifs, GetNotifications(lsNotifs))

CallUnreadCount ==
    NotifStep("unreadCount", None, lsNotifs, GetUnreadCount(lsNotifs))

InitNotif ==
    /\ InitSession
    /\ lsRecord = AbsentRec
    /\ location = "dashboard"
    /\ lsNotifs \in {AbsentNotifs, CorruptNotifs, NonArrayNotifs}
                      \cup {SaveNotifications(l) : l \in PrefilledLists}
    /\ now = 1
    /\ InitDashboard

NextNotif ==
    \/ \E r \in RandomParts : CallCreate(r)
    \/ \E id \in CandidateIds : CallMarkRead(id)
    \/ \E id \in CandidateIds : CallDelete(id)
    \/ CallMarkAll
    \/ CallClearAll
    \/ CallList
    \/ CallUnreadCount
    \/ Tick

SpecNotif == InitNotif /\ [][NextNotif]_vars

(***************************************************************************)
(* The dashboard pages, the ingest handler and the graph viewer            *)
(***************************************************************************)
InitBus ==
    /\ InitSession
    /\ lsRecord = AbsentRec
    /\ location = "dashboard"
    /\ InitNotifications
    /\ InitDashboard

\* The history bound of this specification.
BusLogging == Len(busLog) < MaxBusLog

NextBus ==
    \/ \E k \in ViewKinds : BusLogging /\ OpenView(k)
    \/ BusLogging /\ GraphEffects
    \/ \E valid \in BOOLEAN : BusLogging /\ IngestClick(valid)
    \/ \E i \in 1..MaxIngests, result \in IngestResults :
          BusLogging /\ IngestResolve(i, result)
    \/ \E i \in 1..MaxIngests,
           finding \in {"llm_missing", "extractor_missing", "fine", "failed"} :
               BusLogging /\ IngestDiagnosed(i, finding)
    \/ \E i \in 1..MaxIngests, suppressed \in BOOLEAN :
          BusLogging /\ IngestReject(i, suppressed)

SpecBus == InitBus /\ [][NextBus]_vars

(***************************************************************************)
(* The graph viewer and its requests, with ingestions that go through      *)
(***************************************************************************)
\* The history bound: the steps of the pages and of the handler are followed
\* while the log is shorter than MaxLog; responses are always followed.
Logging == Len(busLog) < MaxLog

NextGraph ==
    \/ \E k \in {"vault", "graph"} : Logging /\ OpenView(k)
    \/ Logging /\ GraphEffects
    \/ Logging /\ IngestClick(TRUE)
    \/ \E i \in 1..MaxIngests :
          \E result \in {r \in IngestResults : r.entities = 1} :
              Logging /\ IngestResolve(i, result)
    \/ Logging /\ ManualLoad
    \/ \E l \in loads, d \in 0..MaxClicks : LoadDone(l, d)
    \/ \E l \in loads, notFound \in BOOLEAN : LoadFail(l, notFound)

SpecGraph == InitBus /\ [][NextGraph]_vars

(***************************************************************************)
(* The notifications panel, with ingestions finishing while it is shown    *)
(***************************************************************************)
NextPanel ==
    \/ \E k \in {"vault", "requests"} : OpenView(k)
    \/ IngestClick(TRUE)
    \/ \E i \in 1..MaxIngests :
          \E result \in {r \in IngestResults : r.entities = 1} : IngestResolve(i, result)
    \/ PanelEffects
    \/ PanelTick
    \/ \E id \in DisplayedIds : PanelMarkRead(id)
    \/ \E id \in DisplayedIds : PanelDelete(id)
    \/ PanelMarkAll
    \/ PanelClearAll

SpecPanel == InitBus /\ [][NextPanel]_vars

(***************************************************************************)
(* Claims                                                                  *)
(***************************************************************************)
RecTok == RecordToken(lsRecord)

\* C1: after every setToken / logout call of the store, the legacy mirror is
\* present iff the session token is non-null, and then holds the same value.
C1_MirrorIffToken ==
    /\ (lsMirror # None) <=> (memToken # None)
    /\ lsMirror # None => lsMirror = memToken

\* C2: in every reachable state of the whole layer, a non-null token in the
\* structured record is also the mirror's value, and a null token means the
\* mirror key is absent.
C2_MirrorInvariant ==
    /\ RecTok # None => lsMirror = RecTok
    /\ RecTok = None => lsMirror = None

\* C3: once a 401 handler has torn the session down it stays torn down (token
\* null, user null, mirror absent, in memory and in the record) until a new
\* login, whatever requests are sent or answered meanwhile.
C3_TornDownStays ==
    tornDown =>
        /\ memToken = None /\ memUser = None
        /\ lsMirror = None
        /\ RecTok = None /\ lsRecord.user = None

\* C4: a wave of concurrent 401 answers makes one document assign
\* window.location.href = "/auth/login" exactly once.
C4_RedirectOnce == redirects <= 1

SessionCleared ==
    /\ memToken = None /\ memUser = None
    /\ RecTok = None /\ lsRecord.user = None
    /\ lsMirror = None

Any401 ==
    \E i \in 1..(MaxInflight + 1) :
        Response401(i) \/ LoginMeFail(i, TRUE) \/ LoginPostFail(i, TRUE)

\* C5: every handled 401 answer, at whatever location, leaves the session
\* cleared in memory, in the record and in the mirror.
C5_Every401Clears == [][Any401 => SessionCleared']_vars

\* C6: the credential attached to a request is the store's token at the
\* moment the request is sent, and none when that token is null.
C6_CredentialIsStoreToken ==
    \A i \in 1..Len(inflight) : inflight[i].cred = Credential(inflight[i].tok)

\* C7: a user profile is never held without a token, in memory or in the
\* persisted record.
C7_UserImpliesToken ==
    /\ memUser # None => memToken # None
    /\ lsRecord.user # None => lsRecord.token # None

TransportStep ==
    \/ SendRequest
    \/ LoginSubmit
    \/ \E i \in 1..(MaxInflight + 1), t \in Tokens : LoginPostOk(i, t)
    \/ GuardSetClient \/ GuardCheck \/ LoginCheck

\* C8: no step of ApiClient (request interceptor, authApi.login's
\* apiClient.setToken), of the route guard or of the login page's check
\* changes the keys "auth-storage" and "auth_token".
C8_OnlyStoreWrites == [][TransportStep => UNCHANGED <<lsRecord, lsMirror>>]_vars

\* A logged getToken call whose structured record parsed, carried the store's
\* version and held token = null.
ParsedNullToken(c) ==
    c.rec0.kind = "ok" /\ c.rec0.version = CurrentVersion /\ c.rec0.token = None

\* A logged getToken call that could only take its value from the mirror:
\* no non-empty token in the record, none from the registered accessor.
OnlyMirrorLeft(c) ==
    /\ ~(c.rec0.kind = "ok" /\ Truthy(c.rec0.token))
    /\ ~Truthy(c.acc0)
    /\ Truthy(c.mir0)

\* C9 (as claimed): when the structured record exists, parses and holds
\* token = null (and the registered accessor yields no token), getToken
\* returns null even if the legacy mirror holds a value.
C9_NullRecordReturnsNull ==
    \A i \in 1..Len(rets) :
        ParsedNullToken(rets[i]) /\ ~Truthy(rets[i].acc0) => rets[i].val = None

\* C9 (amended): getToken returns a non-empty token of the structured record
\* whatever the mirror holds; it returns the mirror's value exactly when the
\* record yields no non-empty token (absent, unparseable, without state, or
\* token null or empty), the registered accessor yields none and the mirror
\* is non-empty.
C9_FallbackWhenNoRecordToken ==
    \A i \in 1..Len(rets) :
        LET c == rets[i] IN
        /\ (c.rec0.kind = "ok" /\ Truthy(c.rec0.token)) => c.val = c.rec0.token
        /\ OnlyMirrorLeft(c) => c.val = c.mir0
        /\ (c.val # None /\ c.val = c.mir0 /\ c.val # c.acc0
              /\ ~(c.rec0.kind = "ok" /\ c.rec0.token = c.val))
             => OnlyMirrorLeft(c)

\* C9 witness: a call on a parsed record with token = null and a user, a
\* mirror holding "abc" and no accessor token returned "abc".
C9_Witness ==
    /\ Len(rets) >= 1
    /\ ParsedNullToken(rets[1]) /\ rets[1].rec0.user # None
    /\ rets[1].acc0 = None
    /\ rets[1].mir0 = Some("abc")
    /\ rets[1].val = Some("abc")

\* C10 (as claimed): whenever getToken returns a value obtained from the
\* legacy mirror, right after the call the structured record's token and the
\* mirror both equal the returned value.
C10_MigratedAfterFallback ==
    \A i \in 1..Len(rets) :
        OnlyMirrorLeft(rets[i]) =>
            /\ rets[i].rec1.kind = "ok" /\ rets[i].rec1.token = rets[i].val
            /\ rets[i].mir1 = rets[i].val

\* C10 (amended): whenever getToken returns a value obtained from the legacy
\* mirror and the structured record is absent or parses, right after the call
\* the record's token and the mirror both equal the returned value and the
\* next getToken reads that value from the record; when the record does not
\* parse it is left as it was, the mirror still equals the returned value and
\* the next getToken returns it again.
C10_MigratedUnlessUnparseable ==
    \A i \in 1..Len(rets) :
        LET c == rets[i] IN
        OnlyMirrorLeft(c) =>
            /\ c.mir1 = c.val
            /\ IF c.rec0.kind = "corrupt"
               THEN c.rec1 = c.rec0
               ELSE c.rec1.kind = "ok" /\ c.rec1.token = c.val
            /\ i < Len(rets) =>
                 /\ rets[i + 1].val = c.val
                 /\ c.rec0.kind # "corrupt" =>
                        rets[i + 1].rec0.kind = "ok" /\ rets[i + 1].rec0.token = c.val
                          /\ rets[i + 1].rec1 = rets[i + 1].rec0

\* C10 witness: a first call that fell back to the mirror with no record
\* stored, followed by a second call.
C10_Witness ==
    /\ Len(rets) >= 2
    /\ OnlyMirrorLeft(rets[1])
    /\ rets[1].rec0.kind = "absent"
    /\ rets[1].src = "legacy"
    /\ rets[2].src = "record"

\* C11 (as claimed): on a structured record that does not parse getToken
\* does not raise and returns the legacy mirror's value when the mirror holds
\* one, null otherwise.
C11_MirrorOrNull ==
    \A i \in 1..Len(rets) :
        LET c == rets[i] IN
        (c.op = "getToken" /\ c.rec0.kind = "corrupt") =>
            /\ ~c.threw
            /\ Truthy(c.mir0) => c.val = c.mir0
            /\ ~Truthy(c.mir0) => c.val = None

\* C11 (amended): whatever the two session keys hold, getToken, the request
\* interceptor and the 401 handler end without an exception; on a structured
\* record that does not parse getToken leaves the record as it is and returns
\* the registered accessor's token when that is non-empty, otherwise the
\* mirror's value when the mirror holds a non-empty one, null otherwise.
C11_FailOpen ==
    \A i \in 1..Len(rets) :
        LET c == rets[i] IN
        /\ ~c.threw
        /\ (c.op \in {"getToken", "request"} /\ c.rec0.kind = "corrupt") =>
              /\ c.rec1 = c.rec0
              /\ Truthy(c.acc0) => c.val = c.acc0
              /\ (~Truthy(c.acc0) /\ Truthy(c.mir0)) => c.val = c.mir0
              /\ (~Truthy(c.acc0) /\ ~Truthy(c.mir0)) => c.val = None

\* C11 witness: getToken fell back to the mirror under an unparseable record
\* and the 401 handler then ran on the dashboard over that record with no
\* accessor registered.
C11_Witness ==
    /\ Len(rets) >= 2
    /\ rets[1].op = "getToken" /\ rets[1].rec0.kind = "corrupt"
    /\ rets[1].mir0 = Some("abc") /\ rets[1].val = Some("abc")
    /\ rets[2].op = "handle401" /\ rets[2].rec0.kind = "corrupt"
    /\ rets[2].rec1.kind = "corrupt" /\ rets[2].mir1 = None
    /\ location = "dashboard"

\* C12: logout() is idempotent: a logout() that directly follows a logout()
\* leaves the state (token, user and isAuthenticated in memory, the structured
\* record, the mirror) that the first one left, and in every state two
\* logout() calls give what one gives.
C12_LogoutIdempotent ==
    /\ StoreLogout(StoreLogout(World)) = StoreLogout(World)
    /\ \A i \in 1..(Len(rets) - 1) :
          (rets[i].op = "logout" /\ rets[i + 1].op = "logout") =>
              rets[i + 1].post = rets[i].post

\* C12 witness: logout() was called on a session with a token and a user,
\* and called again at once.
C12_Witness ==
    \E i \in 1..(Len(rets) - 1) :
        /\ rets[i].op = "logout" /\ rets[i + 1].op = "logout"
        /\ Truthy(rets[i].pre.tok) /\ rets[i].pre.usr # None
        /\ Truthy(rets[i].pre.mir) /\ Truthy(RecordToken(rets[i].pre.rec))

\* C13: setUser(profile) and setUser(null) leave the token as it was, in
\* memory, in the structured record and in the mirror.
C13_SetUserKeepsToken ==
    \A i \in 1..Len(rets) :
        rets[i].op = "setUser" =>
            /\ rets[i].post.tok = rets[i].pre.tok
            /\ RecordToken(rets[i].post.rec) = RecordToken(rets[i].pre.rec)
            /\ rets[i].post.mir = rets[i].pre.mir

\* C13 witness: with a token held, setUser(profile) was called and later
\* setUser(null).
C13_Witness ==
    \E i, j \in 1..Len(rets) :
        /\ i < j
        /\ rets[i].op = "setUser" /\ rets[i].post.usr # None
        /\ rets[j].op = "setUser" /\ rets[j].post.usr = None
        /\ Truthy(rets[i].pre.tok) /\ Truthy(rets[j].pre.tok)
        /\ Truthy(rets[j].pre.mir)

\* The list getNotifications() reads from the stored value.
Listed == GetNotifications(lsNotifs)

Unread(list) == {j \in 1..Len(list) : ~list[j].read}

NewestFirst(list) ==
    \A j \in 1..(Len(list) - 1) : list[j].timestamp >= list[j + 1].timestamp

Oldest(list, d) ==
    \A j \in 1..Len(list) : list[d].timestamp <= list[j].timestamp

\* C14: whatever operations were applied, the persisted notification list
\* holds at most MAX_NOTIFICATIONS (50) entries.
C14_AtMostFifty ==
    /\ Len(lsNotifs.items) <= MAX_NOTIFICATIONS
    /\ \A i \in 1..Len(rets) : Len(rets[i].post) <= MAX_NOTIFICATIONS

\* C14 witness: a create was applied to a list of 50 entries and left 50.
C14_Witness ==
    \E i \in 1..Len(rets) :
        /\ rets[i].op = "create"
        /\ Len(rets[i].pre) = MAX_NOTIFICATIONS
        /\ Len(lsNotifs.items) = MAX_NOTIFICATIONS

\* C15: after create returned entry e the list holds e, unread, with every
\* previous entry when these were fewer than 50, and with all previous
\* entries but one of the smallest createdAt when they were 50.
C15_CreateKeepsNewEntry ==
    \A i \in 1..Len(rets) :
        LET c == rets[i] IN
        c.op = "create" =>
            /\ ~c.ret.read
            /\ \E k \in 1..Len(c.post) :
                  /\ c.post[k] = c.ret
                  /\ IF Len(c.pre) < MAX_NOTIFICATIONS
                     THEN Remove(c.post, k) = c.pre
                     ELSE \E d \in 1..Len(c.pre) :
                            /\ Oldest(c.pre, d)
                            /\ Remove(c.post, k) = Remove(c.pre, d)

\* C15 witness: two creates in a row on a list of 50 entries of two
\* different instants.
C15_Witness ==
    /\ Len(rets) = 2
    /\ rets[1].op = "create" /\ rets[2].op = "create"
    /\ Len(rets[1].pre) = MAX_NOTIFICATIONS
    /\ rets[1].pre[1].timestamp > rets[1].pre[MAX_NOTIFICATIONS].timestamp
    /\ Listed[1] = rets[2].ret /\ Listed[2] = rets[1].ret

\* C16: unreadCount() returns the number of entries of list() with
\* read = false, in every state and for every call made.
C16_UnreadCountIsCount ==
    /\ GetUnreadCount(lsNotifs) = Cardinality(Unread(Listed))
    /\ \A i \in 1..Len(rets) :
          rets[i].op = "unreadCount" => rets[i].ret = Cardinality(Unread(rets[i].pre))

\* C16 witness: unreadCount() was called right after a markRead that turned
\* an unread entry of a list with read and unread entries.
C16_Witness ==
    /\ Len(rets) = 2
    /\ rets[1].op = "markRead"
    /\ Cardinality(Unread(rets[1].post)) < Cardinality(Unread(rets[1].pre))
    /\ rets[2].op = "unreadCount"
    /\ rets[2].ret > 0 /\ rets[2].ret < Len(rets[2].pre) - 1

\* C17: list() returns the persisted entries, most recent createdAt first,
\* and a list() that directly follows a list() returns the same sequence.
C17_NewestFirstAndStable ==
    /\ NewestFirst(Listed)
    /\ \A i \in 1..Len(rets) :
          /\ NewestFirst(rets[i].post)
          /\ rets[i].op = "list" =>
                /\ rets[i].ret = rets[i].pre
                /\ rets[i].post = rets[i].pre
                /\ (i > 1 /\ rets[i - 1].op = "list") => rets[i].ret = rets[i - 1].ret

\* C17 witness: two list() calls in a row returned a list whose entries are
\* of different instants.
C17_Witness ==
    /\ Len(rets) = 2
    /\ rets[1].op = "list" /\ rets[2].op = "list"
    /\ Len(rets[2].ret) = MAX_NOTIFICATIONS
    /\ rets[2].ret[1].timestamp > rets[2].ret[MAX_NOTIFICATIONS].timestamp

\* C18: on a 'notifications' value that does not parse or is not an array no
\* operation ends by an exception, getNotifications returns the empty list,
\* unreadCount returns 0 and a create leaves a list of exactly the new entry.
C18_CorruptReadsAsEmpty ==
    \A i \in 1..Len(rets) :
        LET c == rets[i] IN
        /\ ~c.threw
        /\ c.kind0 \in {"corrupt", "nonarray"} =>
              /\ c.op = "list" => c.ret = <<>>
              /\ c.op = "unreadCount" => c.ret = 0
              /\ c.op = "create" => c.post = <<c.ret>>

\* C18 witness: on a value that is not an array getNotifications was called,
\* then create.
C18_Witness ==
    /\ Len(rets) = 2
    /\ rets[1].op = "list" /\ rets[1].kind0 = "nonarray"
    /\ rets[2].op = "create" /\ rets[2].kind0 = "nonarray"
    /\ Len(Listed) = 1

\* Entries of the bus log, by position.
BusAt(kind) == {i \in 1..Len(busLog) : busLog[i].kind = kind}

\* The viewers whose listener is registered when entry j is logged: added
\* before j and not removed since.
RegisteredAt(j) ==
    {busLog[a].viewer : a \in {a \in BusAt("listen") :
        /\ a < j
        /\ \A b \in BusAt("unlisten") :
              busLog[b].viewer = busLog[a].viewer => (b < a \/ b > j)}}

\* C19: every dispatch of 'graph-data-updated' calls the handler of each
\* viewer registered at that moment once, before anything else happens, and
\* no handler is ever called with that occurrence otherwise: not for a viewer
\* that registers later, and not again.
C19_DeliveredToRegisteredOnly ==
    /\ \A j \in BusAt("publish") :
          LET R == RegisteredAt(j)
              H == {h \in BusAt("handler") : busLog[h].ev = busLog[j].ev}
          IN  /\ {busLog[h].viewer : h \in H} = R
              /\ Cardinality(H) = Cardinality(R)
              /\ \A h \in H : h > j /\ h <= j + 2 * Cardinality(R)
    /\ \A h \in BusAt("handler") :
          \E j \in BusAt("publish") : busLog[j].ev = busLog[h].ev

\* C19 witness: a first occurrence was dispatched, a viewer registered after
\* that, and a second occurrence reached this viewer, which never got the
\* first.
C19_Witness ==
    \E j1, j2 \in BusAt("publish"), a \in BusAt("listen"), h \in BusAt("handler") :
        /\ j1 < a /\ a < j2 /\ j2 < h
        /\ busLog[h].viewer = busLog[a].viewer
        /\ busLog[h].ev = busLog[j2].ev
        /\ busLog[j1].ev # busLog[j2].ev

\* C20: once a viewer's effect cleanup has removed its listener, no handler
\* of that viewer is called and no graph load is started for it.
C20_NothingAfterUnsubscribe ==
    \A i \in BusAt("unlisten") :
        \A h \in (i + 1)..Len(busLog) :
            busLog[h].viewer = busLog[i].viewer =>
                busLog[h].kind \notin {"handler", "load", "listen"}

\* C20 witness: a viewer received an occurrence, was unmounted, and another
\* occurrence was dispatched after that.
C20_Witness ==
    \E h \in BusAt("handler"), i \in BusAt("unlisten"), j \in BusAt("publish") :
        /\ h < i /\ i < j
        /\ busLog[h].viewer = busLog[i].viewer

\* C21: whenever a listener handles an occurrence of 'graph-data-updated', the
\* notification of the ingestion that published it has been created before
\* (an entry is in the stored list, unread, from its createNotification call
\* on): the handler entry of the occurrence comes after the notify entry of
\* the occurrence.
C21_NotifiedBeforeHandled ==
    \A h \in BusAt("handler") :
        \E n \in BusAt("notify") : n < h /\ busLog[n].ev = busLog[h].ev

\* Entries of the bus log written by the handler of click q.
Req(kind, q) == {i \in BusAt(kind) : busLog[i].req = q}

\* The handler of click q has returned.
Ended(q) == \A i \in 1..Len(ingests) : ingests[i].id # q

\* C22: the handler of an ingest click dispatches 'graph-data-updated' at most
\* once, only after its request resolved and with the counts of that
\* response as payload, and has dispatched it once when its request resolved
\* and it has returned; a handler whose request was rejected or whose file id
\* was refused dispatches nothing; and nothing else publishes the event.
C22_PublishedOncePerSuccess ==
    /\ \A q \in 1..clicks :
          LET D == Req("dispatch", q)
              R == Req("resolved", q)
          IN  /\ Cardinality(D) <= 1
              /\ \A d \in D : \E r \in R :
                    /\ r < d
                    /\ busLog[d].detail.entities_extracted = busLog[r].detail.entities
                    /\ busLog[d].detail.relations_extracted = busLog[r].detail.relations
              /\ (R # {} /\ Ended(q)) => Cardinality(D) = 1
              /\ (Req("rejected", q) # {} \/ Req("refused", q) # {}) => D = {}
    /\ \A p \in BusAt("publish") :
          /\ p > 1
          /\ busLog[p - 1].kind = "dispatch"
          /\ busLog[p - 1].ev = busLog[p].ev
    /\ \A d \in BusAt("dispatch") :
          /\ d < Len(busLog)
          /\ busLog[d + 1].kind = "publish"
    /\ \A p1, p2 \in BusAt("publish") : busLog[p1].ev = busLog[p2].ev => p1 = p2
    /\ Cardinality(BusAt("publish")) = published

\* C22 witness: one request resolved with a file that had been ingested
\* before and its handler dispatched the event; another request was rejected.
C22_Witness ==
    \E d \in BusAt("dispatch"), r \in BusAt("resolved"), x \in BusAt("rejected") :
        /\ busLog[r].req = busLog[d].req
        /\ busLog[r].detail.status = "skipped_duplicate"
        /\ busLog[r].detail.entities = 1
        /\ busLog[x].req # busLog[d].req

\* What DashboardLayout renders.
GuardRenders ==
    IF location # "dashboard" THEN "none"
    ELSE IF ~guardClient \/ ~guardChecked THEN "loading"
    ELSE "content"

\* C23: the guard starts rendering the protected content, and redirects to
\* the login page, only in a step of its deferred check: before the step
\* isClient is set and the timer armed by the effect is pending.  While
\* isClient is unset no check is pending and none has passed.
C23_LoadingUntilChecked ==
    [][ /\ (location = "dashboard" /\ ~guardClient) => (~guardTimer /\ ~guardChecked)
        /\ (GuardRenders' = "content" /\ GuardRenders # "content")
              => (location = "dashboard" /\ guardClient /\ guardTimer /\ HasAuth)
        /\ guardPushes' # guardPushes
              => (location = "dashboard" /\ guardClient /\ guardTimer /\ ~HasAuth)
      ]_vars

\* C23 witness: a dashboard document whose guard has redirected once shows
\* the protected content after a later check.
C23_Witness ==
    /\ GuardRenders = "content"
    /\ guardPushes = 1

\* C24: whenever the guard renders the protected content the store holds a
\* token, and the deferred check lets the content through only when the
\* store holds a token (the legacy mirror alone does not pass it).
C24_ContentOnlyWithSession ==
    [][ /\ GuardRenders = "content" => Truthy(memToken)
        /\ (guardChecked' /\ ~guardChecked) => Truthy(memToken)
      ]_vars

\* The loads the effects and the listener of a viewer started (not the ones
\* the user asked for).
OwnLoads(v) ==
    {i \in BusAt("load") : busLog[i].viewer = v /\ ~IsReload(busLog[i])}

\* C25: a graph viewer starts exactly one full reload when it mounts, before
\* it registers its listener, and exactly one more for each occurrence its
\* listener receives; so whatever a viewer shows contains every ingestion
\* that had completed (and been published) before the viewer mounted.
C25_ReloadOnMountAndEvent ==
    /\ \A a \in BusAt("listen") :
          LET v == busLog[a].viewer
          IN  /\ a > 1
              /\ busLog[a - 1] = BusEntry("load", v, 0)
              /\ Cardinality({i \in OwnLoads(v) : busLog[i].ev = 0}) = 1
    /\ \A h \in BusAt("handler") :
          /\ h < Len(busLog)
          /\ busLog[h + 1] = BusEntry("load", busLog[h].viewer, busLog[h].ev)
          /\ Cardinality({i \in OwnLoads(busLog[h].viewer) :
                              busLog[i].ev = busLog[h].ev}) = 1
    /\ \A i \in BusAt("load") :
          busLog[i].ev > 0 =>
              \E h \in BusAt("handler") :
                  h = i - 1 /\ busLog[h].viewer = busLog[i].viewer
                            /\ busLog[h].ev = busLog[i].ev
    /\ (view.kind = "graph" /\ graph.nodes # None) =>
          \A m \in OwnLoads(view.id) :
              busLog[m].ev = 0 => graph.nodes[1].data >= VersionAt(m)

\* C25 witness: an ingestion was published while no viewer was mounted; the
\* viewer mounted later received a second occurrence and shows data with both
\* ingestions.
C25_Witness ==
    /\ view.kind = "graph"
    /\ graph.nodes # None
    /\ graph.nodes[1].data = 2
    /\ \E p \in BusAt("publish"), m \in OwnLoads(view.id), h \in BusAt("handler") :
          /\ busLog[m].ev = 0
          /\ p < m
          /\ m < h
          /\ busLog[h].viewer = view.id

\* The requests of viewer v: all it sent, and those still unanswered.
LoadsOf(v) == {i \in BusAt("load") : busLog[i].viewer = v}
PendingOf(v) == {l \in loads : busLog[l].viewer = v}

\* C29: the graph viewer's loading flag is set while one of its requests is
\* unanswered; and once all are answered, what it shows is the answer to the
\* request it sent last (when that request was answered with data).
C29_LatestReloadWins ==
    view.kind = "graph" =>
        /\ PendingOf(view.id) # {} => graph.loading
        /\ (PendingOf(view.id) = {} /\ graph.nodes # None) =>
              \A last \in LoadsOf(view.id) :
                  ((\A i \in LoadsOf(view.id) : i <= last) /\ last \notin graph.failed)
                      => graph.nodes[1].at = last

\* The ids of a list of notifications.
IdsOf(list) == {list[i].id : i \in 1..Len(list)}

\* C26: the panel's interval is registered only while the panel is mounted;
\* a firing of the interval shows the whole stored list, so every entry
\* created since the firing before; and markRead, markAllRead and remove from
\* the panel keep every stored entry but the removed one, also those created
\* since the last firing and not yet displayed, and show the result.
C26_PanelFollowsStore ==
    /\ panel.timer => Displayed
    /\ \A c \in {rets[i] : i \in 1..Len(rets)} :
          /\ c.op \in {"mount", "tick"} =>
                (c.post = c.pre /\ c.shown = c.pre)
          /\ c.op \in {"markRead", "markAll", "delete"} =>
                /\ c.shown = c.post
                /\ IdsOf(c.pre) \ (IF c.op = "delete" THEN {c.arg} ELSE {})
                      = IdsOf(c.post)

\* C26 witness: an ingestion finished while the panel was shown, and before
\* the next firing the user marked a displayed entry as read: the new entry,
\* not displayed before, is stored and displayed after.
C26_Witness ==
    /\ Len(rets) = 1
    /\ rets[1].op = "markRead"
    /\ \E id \in IdsOf(rets[1].pre) :
          /\ id \notin IdsOf(rets[1].before)
          /\ id \in IdsOf(rets[1].shown)

\* C27: in every state of the auth store, also right after a page reload
\* rehydrated it from the persisted record, isAuthenticated is true exactly
\* when user is not null.
C27_AuthenticatedIffUser == memAuth <=> (memUser # None)

\* C28: every step that writes the structured session record leaves in it
\* the token and the user of the store's in-memory state.
C28_RecordEqualsMemory ==
    [][ lsRecord' # lsRecord =>
          /\ lsRecord'.kind = "ok"
          /\ lsRecord'.token = memToken'
          /\ lsRecord'.user = memUser'
      ]_vars

\* C30: handleSubmit assigns location.href = "/dashboard" only with the
\* access token of the login response in the store, in the structured record
\* and in the legacy mirror, whatever GET /auth/me answered; and a failed
\* POST /auth/login changes none of the three and starts no navigation.
C30_NavigateAfterTokenStored ==
    [][ /\ (loginPc = "fetchingMe" /\ loginPc' = "done") =>
              /\ pendingNav' = Some("dashboard")
              /\ memToken' = loginTok
              /\ RecordToken(lsRecord') = loginTok
              /\ lsMirror' = loginTok
        /\ (loginPc = "posting" /\ loginPc' = "idle" /\ sent' = sent) =>
              /\ memToken' = memToken
              /\ lsRecord' = lsRecord
              /\ lsMirror' = lsMirror
              /\ pendingNav' = pendingNav
              /\ location' = location
      ]_vars

====
